---- MODULE Spec2Model ----
(***************************************************************************)
(* Forked Alertmanager, remote secondary mode                              *)
(* (pkg/services/ngalert/remote, RemoteSecondaryForkedAlertmanager).       *)
(*                                                                         *)
(* The coordinator wraps an internal and a remote Alertmanager.            *)
(* ApplyConfig starts one goroutine that decides whether the remote        *)
(* Alertmanager must be synced, calls the internal Alertmanager in the     *)
(* calling thread, joins the goroutine and returns the internal error.     *)
(* Both engines are external: every answer they give (error or nil,        *)
(* ready or not) is an input chosen by the environment.                    *)
(***************************************************************************)
EXTENDS Integers, Sequences, FiniteSets, TLC

\* ------------------------------------------------------------------ bounds
\* Largest configured sync interval, in clock ticks.
MaxInterval == 2
\* Number of ticks the clock may advance during a behaviour.
MaxTicks == 2

\* ------------------------------------------------------- values and clock
\* Threads that may call the coordinator.
Callers == {"c1", "c2"}

\* error values: nil, the internal Alertmanager's error, the remote one's
Nil == "nil"
LocalErr == "internal error"
RemoteErr == "remote error"

\* The zero value of time.Time (the lastSync of a new coordinator).
ZeroTime == 0
\* time.Now() of the first instant of a behaviour: the zero time.Time lies
\* further in the past than any sync interval.
ClockStart == MaxInterval + 1
ClockEnd == ClockStart + MaxTicks

SyncIntervals == 0..MaxInterval

\* names of the remote Alertmanager's methods, as recorded per call
RReady == "Ready"
RApply == "ApplyConfig"
RCfg == "CompareAndSendConfiguration"
RState == "CompareAndSendState"

\* error log messages of ApplyConfig
LogApply == "Error applying config to the remote Alertmanager"
LogCfg == "Unable to upload the configuration to the remote Alertmanager"
LogState == "Unable to upload the state to the remote Alertmanager"

VARIABLES
    lastSync,       \* fam.lastSync
    syncInterval,   \* fam.syncInterval
    now,            \* the clock read by time.Now() and time.Since()
    call,           \* per caller: the ApplyConfig call in flight
    done,           \* the most recently returned ApplyConfig call
    prev,           \* remote outcome of the call returned before `done`
    fam,            \* the coordinator the constructor returned, if any
    new,            \* the constructor call: its configuration and error
    op              \* the most recently returned synchronous operation

vars == <<lastSync, syncInterval, now, call, done, prev, fam, new, op>>

\* A caller that is not inside ApplyConfig.
NoCall ==
    [ mpc      |-> "idle",   \* position of the calling thread
      gpc      |-> "idle",   \* position of the goroutine
      err      |-> Nil,      \* err of line 98
      ready    |-> FALSE,    \* answer of fam.remote.Ready()
      applyErr |-> Nil,      \* err of line 69
      cfgErr   |-> Nil,      \* cfgErr of line 80
      stateErr |-> Nil,      \* stateErr of line 85
      since    |-> 0,        \* time.Since(fam.lastSync) of line 78
      due      |-> FALSE,    \* outcome of the comparison of line 78
      t        |-> 0,        \* time.Now() evaluated at line 73 or 92
      wrote    |-> FALSE,    \* the goroutine assigned fam.lastSync
      rcalls   |-> <<>>,     \* calls made on the remote Alertmanager
      rargs    |-> <<>>,     \* the arguments of each of these calls
      lcalls   |-> 0,        \* ApplyConfig calls made on the internal one
      largs    |-> <<>>,     \* the arguments of the last of these calls
      log      |-> <<>>,     \* fam.log.Error entries
      sync0    |-> ZeroTime, \* fam.lastSync when the call was made
      sync1    |-> ZeroTime, \* fam.lastSync when the call returned
      t0       |-> 0,        \* the clock when the call was made
      t1       |-> 0,        \* the clock when the call returned
      ret      |-> Nil,      \* value returned by ApplyConfig
      valid    |-> FALSE ]   \* the record describes a call

\* No synchronous operation has returned yet.
NoOp ==
    [ name   |-> "none",     \* the coordinator's method
      arg    |-> "none",     \* the caller's arguments
      calls  |-> <<>>,       \* calls made on the engines, in order
      answer |-> "none",     \* result the engine returned
      aerr   |-> Nil,        \* error the engine returned
      lready |-> FALSE,      \* what internal.Ready() answers at that moment
      rready |-> FALSE,      \* what remote.Ready() answers at that moment
      res    |-> "none",     \* result the coordinator returned
      err    |-> Nil ]       \* error the coordinator returned

\* ------------------------------------------------------------ helper code
\* time.Since(last) evaluated when the clock shows `clock`.
Since(last, clock) == clock - last

\* Line 78: time.Since(fam.lastSync) >= fam.syncInterval.
SyncDueStrict(elapsed, interval) == elapsed > interval
SyncDueAlways(elapsed, interval) == TRUE
SyncDueNever(elapsed, interval) == FALSE
SyncDue(elapsed, interval) == elapsed >= interval

\* Lines 69-74: where the goroutine goes after remote.ApplyConfig.
AfterRemoteApplyIgnoreErr(e) == "now73"
AfterRemoteApplyNoStore(e) == "done"
AfterRemoteApply(e) == IF e # Nil THEN "done" ELSE "now73"

\* Lines 80-85: CompareAndSendState is called whatever cfgErr is.
AfterCfgStopOnErr(e) == IF e # Nil THEN "check" ELSE "state"
AfterCfg(e) == "state"

\* Line 91: cfgErr == nil && stateErr == nil.
BothSucceededCfgOnly(c, s) == c = Nil
BothSucceededStateOnly(c, s) == s = Nil
BothSucceededEither(c, s) == c = Nil \/ s = Nil
BothSucceeded(c, s) == c = Nil /\ s = Nil

\* Line 99: wg.Wait() returns once the goroutine has run wg.Done().
JoinedNoWait(c) == TRUE
JoinedBeforeStore(c) == call[c].gpc \in {"done", "store73", "store92"}
Joined(c) == call[c].gpc = "done"

\* Line 100: return err.
ReturnValueRemoteFirst(c) ==
    IF call[c].applyErr # Nil \/ call[c].cfgErr # Nil \/ call[c].stateErr # Nil
    THEN RemoteErr ELSE call[c].err
ReturnValue(c) == call[c].err

\* Line 60: the ctx and the config a caller passes to ApplyConfig; each
\* caller has its own.
CallerCtx(c) == <<"ctx", c>>
CallerConfig(c) == <<"config", c>>

\* Lines 69, 80 and 98: (ctx, config).  Line 85: (ctx).  Line 68: ().
ConfigArgs(c) == <<CallerCtx(c), CallerConfig(c)>>
StateArgsBackground(c) == <<<<"ctx", "background">>>>
StateArgs(c) == <<CallerCtx(c)>>
LocalArgs(c) == <<CallerCtx(c), CallerConfig(c)>>

\* What happened on the remote side of a returned call.
RemoteOutcome(r) ==
    IF ~r.valid THEN "none"
    ELSE IF ~r.ready
         THEN (IF r.applyErr # Nil THEN "applyFailed" ELSE "bootstrapped")
    ELSE IF ~r.due THEN "skipped"
    ELSE IF r.cfgErr # Nil /\ r.stateErr # Nil THEN "bothFailed"
    ELSE IF r.cfgErr # Nil \/ r.stateErr # Nil THEN "partial"
    ELSE "synced"

NoCallInFlight == \A c \in Callers : call[c].mpc = "idle"

\* ------------------------------------------------------------------- Init
\* NewRemoteSecondaryForkedAlertmanager: lastSync keeps its zero value.
InitSyncedNow ==
    /\ lastSync = ClockStart
    /\ syncInterval \in SyncIntervals
    /\ now = ClockStart
    /\ call = [c \in Callers |-> NoCall]
    /\ done = NoCall
    /\ prev = "none"
    /\ fam = "secondary"
    /\ new = [kind |-> "secondary", logger |-> TRUE,
              interval |-> syncInterval, err |-> Nil]
    /\ op = NoOp
Init ==
    /\ lastSync = ZeroTime
    /\ syncInterval \in SyncIntervals
    /\ now = ClockStart
    /\ call = [c \in Callers |-> NoCall]
    /\ done = NoCall
    /\ prev = "none"
    /\ fam = "secondary"
    /\ new = [kind |-> "secondary", logger |-> TRUE,
              interval |-> syncInterval, err |-> Nil]
    /\ op = NoOp

\* ---------------------------------------------------------------- actions
\* Time passes.
Tick ==
    /\ now < ClockEnd
    /\ now' = now + 1
    /\ UNCHANGED <<lastSync, syncInterval, call, done, prev, fam, new, op>>

\* Lines 61-64: wg.Add(1); go func() {...}().
StartNoGoroutine(c) ==
    /\ fam = "secondary"
    /\ call[c].mpc = "idle"
    /\ call' = [call EXCEPT ![c] =
                  [NoCall EXCEPT !.mpc = "local", !.gpc = "done",
                                 !.sync0 = lastSync, !.t0 = now,
                                 !.valid = TRUE]]
    /\ UNCHANGED <<lastSync, syncInterval, now, done, prev, fam, new, op>>
Start(c) ==
    /\ fam = "secondary"
    /\ call[c].mpc = "idle"
    /\ call' = [call EXCEPT ![c] =
                  [NoCall EXCEPT !.mpc = "local", !.gpc = "ready",
                                 !.sync0 = lastSync, !.t0 = now,
                                 !.valid = TRUE]]
    /\ UNCHANGED <<lastSync, syncInterval, now, done, prev, fam, new, op>>

\* Calls of one coordinator that do not overlap.
StartSeq(c) == NoCallInFlight /\ Start(c)

\* Line 68: if !fam.remote.Ready().
GoReady(c) ==
    /\ call[c].gpc = "ready"
    /\ \E r \in BOOLEAN :
         call' = [call EXCEPT ![c].ready = r,
                              ![c].rcalls = Append(@, RReady),
                              ![c].rargs = Append(@, <<>>),
                              ![c].gpc = IF r THEN "since" ELSE "apply"]
    /\ UNCHANGED <<lastSync, syncInterval, now, done, prev, fam, new, op>>

\* Lines 69-72: fam.remote.ApplyConfig(ctx, config), logged on error.
GoRemoteApply(c) ==
    /\ call[c].gpc = "apply"
    /\ \E e \in {Nil, RemoteErr} :
         call' = [call EXCEPT ![c].applyErr = e,
                              ![c].rcalls = Append(@, RApply),
                              ![c].rargs = Append(@, ConfigArgs(c)),
                              ![c].log = IF e # Nil THEN Append(@, LogApply) ELSE @,
                              ![c].gpc = AfterRemoteApply(e)]
    /\ UNCHANGED <<lastSync, syncInterval, now, done, prev, fam, new, op>>

\* Lines 73 and 92, right-hand side: time.Now().
GoNow(c) ==
    /\ call[c].gpc \in {"now73", "now92"}
    /\ call' = [call EXCEPT ![c].t = now,
                            ![c].gpc = IF @ = "now73" THEN "store73" ELSE "store92"]
    /\ UNCHANGED <<lastSync, syncInterval, now, done, prev, fam, new, op>>

\* Lines 73 and 92, assignment: fam.lastSync = ...; then wg.Done().
GoStore(c) ==
    /\ call[c].gpc \in {"store73", "store92"}
    /\ lastSync' = call[c].t
    /\ call' = [call EXCEPT ![c].wrote = TRUE, ![c].gpc = "done"]
    /\ UNCHANGED <<syncInterval, now, done, prev, fam, new, op>>

\* Line 78: if time.Since(fam.lastSync) >= fam.syncInterval.
GoSinceAsksReadyAgain(c) ==
    /\ call[c].gpc = "since"
    /\ \E r \in BOOLEAN :
         LET elapsed == Since(lastSync, now)
             d == SyncDue(elapsed, syncInterval)
         IN  call' = [call EXCEPT ![c].since = elapsed,
                                  ![c].due = d,
                                  ![c].rcalls = Append(@, RReady),
                                  ![c].rargs = Append(@, <<>>),
                                  ![c].gpc = IF ~r THEN "apply"
                                             ELSE IF d THEN "cfg" ELSE "done"]
    /\ UNCHANGED <<lastSync, syncInterval, now, done, prev, fam, new, op>>
GoSince(c) ==
    /\ call[c].gpc = "since"
    /\ LET elapsed == Since(lastSync, now)
           d == SyncDue(elapsed, syncInterval)
       IN  call' = [call EXCEPT ![c].since = elapsed,
                                ![c].due = d,
                                ![c].gpc = IF d THEN "cfg" ELSE "done"]
    /\ UNCHANGED <<lastSync, syncInterval, now, done, prev, fam, new, op>>

\* Lines 80-83: fam.remote.CompareAndSendConfiguration(ctx, config).
GoCfgSharedErr(c) ==
    /\ call[c].gpc = "cfg"
    /\ \E e \in {Nil, RemoteErr} :
         call' = [call EXCEPT ![c].cfgErr = e,
                              ![c].err = e,
                              ![c].rcalls = Append(@, RCfg),
                              ![c].rargs = Append(@, ConfigArgs(c)),
                              ![c].log = IF e # Nil THEN Append(@, LogCfg) ELSE @,
                              ![c].gpc = AfterCfg(e)]
    /\ UNCHANGED <<lastSync, syncInterval, now, done, prev, fam, new, op>>
GoCfg(c) ==
    /\ call[c].gpc = "cfg"
    /\ \E e \in {Nil, RemoteErr} :
         call' = [call EXCEPT ![c].cfgErr = e,
                              ![c].rcalls = Append(@, RCfg),
                              ![c].rargs = Append(@, ConfigArgs(c)),
                              ![c].log = IF e # Nil THEN Append(@, LogCfg) ELSE @,
                              ![c].gpc = AfterCfg(e)]
    /\ UNCHANGED <<lastSync, syncInterval, now, done, prev, fam, new, op>>

\* Lines 85-89: fam.remote.CompareAndSendState(ctx).
GoStateFirst(c) ==
    /\ call[c].gpc = "cfg"
    /\ Len(call[c].rcalls) = 1
    /\ \E e \in {Nil, RemoteErr} :
         call' = [call EXCEPT ![c].stateErr = e,
                              ![c].rcalls = Append(@, RState),
                              ![c].rargs = Append(@, StateArgs(c)),
                              ![c].log = IF e # Nil THEN Append(@, LogState) ELSE @]
    /\ UNCHANGED <<lastSync, syncInterval, now, done, prev, fam, new, op>>
GoStateLogOnce(c) ==
    /\ call[c].gpc = "state"
    /\ \E e \in {Nil, RemoteErr} :
         call' = [call EXCEPT ![c].stateErr = e,
                              ![c].rcalls = Append(@, RState),
                              ![c].rargs = Append(@, StateArgs(c)),
                              ![c].log = IF e # Nil /\ call[c].cfgErr = Nil
                                         THEN Append(@, LogState) ELSE @,
                              ![c].gpc = "check"]
    /\ UNCHANGED <<lastSync, syncInterval, now, done, prev, fam, new, op>>
GoState(c) ==
    /\ call[c].gpc = "state"
    /\ \E e \in {Nil, RemoteErr} :
         call' = [call EXCEPT ![c].stateErr = e,
                              ![c].rcalls = Append(@, RState),
                              ![c].rargs = Append(@, StateArgs(c)),
                              ![c].log = IF e # Nil THEN Append(@, LogState) ELSE @,
                              ![c].gpc = "check"]
    /\ UNCHANGED <<lastSync, syncInterval, now, done, prev, fam, new, op>>

\* Line 91: if cfgErr == nil && stateErr == nil.
GoCheck(c) ==
    /\ call[c].gpc = "check"
    /\ call' = [call EXCEPT ![c].gpc =
                  IF BothSucceeded(call[c].cfgErr, call[c].stateErr)
                  THEN "now92" ELSE "done"]
    /\ UNCHANGED <<lastSync, syncInterval, now, done, prev, fam, new, op>>

\* Line 98: err := fam.internal.ApplyConfig(ctx, config).
LocalApply(c) ==
    /\ call[c].mpc = "local"
    /\ \E e \in {Nil, LocalErr} :
         call' = [call EXCEPT ![c].err = e,
                              ![c].lcalls = @ + 1,
                              ![c].largs = LocalArgs(c),
                              ![c].mpc = "wait"]
    /\ UNCHANGED <<lastSync, syncInterval, now, done, prev, fam, new, op>>

\* Lines 99-100: wg.Wait(); return err.  The record kept of the returned
\* call leaves out the arguments, which are the caller's own.
Return(c) ==
    /\ call[c].mpc = "wait"
    /\ Joined(c)
    /\ done' = [call[c] EXCEPT !.ret = ReturnValue(c), !.mpc = "returned",
                               !.sync1 = lastSync, !.t1 = now,
                               !.rargs = <<>>, !.largs = <<>>]
    /\ prev' = RemoteOutcome(done)
    /\ call' = [call EXCEPT ![c] = NoCall]
    /\ UNCHANGED <<lastSync, syncInterval, now, fam, new, op>>

Goroutine(c) ==
    \/ GoReady(c)
    \/ GoRemoteApply(c)
    \/ GoNow(c)
    \/ GoStore(c)
    \/ GoSince(c)
    \/ GoCfg(c)
    \/ GoState(c)
    \/ GoCheck(c)

Next ==
    \/ Tick
    \/ \E c \in Callers :
         \/ StartSeq(c)
         \/ Goroutine(c)
         \/ LocalApply(c)
         \/ Return(c)

\* ApplyConfig calls of one coordinator, one after the other.
Spec == Init /\ [][Next]_vars

\* Lines 61-64 for a call that may overlap another one: the coordinator
\* takes no lock, so a call may start while another is in flight.
StartConc(c) ==
    /\ fam = "secondary"
    /\ call[c].mpc = "idle"
    /\ call' = [call EXCEPT ![c] =
                  [NoCall EXCEPT !.mpc = "local", !.gpc = "ready",
                                 !.valid = TRUE]]
    /\ UNCHANGED <<lastSync, syncInterval, now, done, prev, fam, new, op>>

\* Lines 99-100 without the history of returned calls, which is kept only
\* for the ApplyConfig calls of Spec.
ReturnConc(c) ==
    /\ call[c].mpc = "wait"
    /\ Joined(c)
    /\ call' = [call EXCEPT ![c] = NoCall]
    /\ UNCHANGED <<lastSync, syncInterval, now, done, prev, fam, new, op>>

NextConc ==
    \/ Tick
    \/ \E c \in Callers :
         \/ StartConc(c)
         \/ Goroutine(c)
         \/ LocalApply(c)
         \/ ReturnConc(c)

\* ApplyConfig calls of one coordinator that may overlap.
SpecConc == Init /\ [][NextConc]_vars

\* Lines 61-64 for a call that may overlap another one, keeping the time
\* at which the call was made.
StartAt(c) ==
    /\ fam = "secondary"
    /\ call[c].mpc = "idle"
    /\ call' = [call EXCEPT ![c] =
                  [NoCall EXCEPT !.mpc = "local", !.gpc = "ready",
                                 !.t0 = now, !.valid = TRUE]]
    /\ UNCHANGED <<lastSync, syncInterval, now, done, prev, fam, new, op>>

\* Lines 99-100 of a call that may overlap others.  A record is kept of
\* the most recently returned call that found the remote Alertmanager not
\* ready and applied the configuration to it with success, assigning
\* lastSync (lines 68-74): the timestamp it assigned and the time at which
\* it returned.
ReturnBoot(c) ==
    /\ call[c].mpc = "wait"
    /\ Joined(c)
    /\ done' = IF ~call[c].ready /\ call[c].applyErr = Nil /\ call[c].wrote
               THEN [NoCall EXCEPT !.valid = TRUE, !.mpc = "returned",
                                   !.gpc = "done", !.wrote = TRUE,
                                   !.rcalls = <<RReady, RApply>>,
                                   !.lcalls = 1, !.t = call[c].t,
                                   !.t1 = now]
               ELSE done
    /\ call' = [call EXCEPT ![c] = NoCall]
    /\ UNCHANGED <<lastSync, syncInterval, now, prev, fam, new, op>>

NextBoot ==
    \/ Tick
    \/ \E c \in Callers :
         \/ StartAt(c)
         \/ Goroutine(c)
         \/ LocalApply(c)
         \/ ReturnBoot(c)

\* Overlapping ApplyConfig calls, with the record of the last bootstrap.
SpecBoot == Init /\ [][NextBoot]_vars

\* ApplyConfig is called again and again, one call after the other, and a
\* call that was made runs to its end: the Go scheduler runs every runnable
\* goroutine, the engines answer, wg.Wait() returns after wg.Done().  The
\* clock is not required to advance.
NextLive ==
    \/ Tick
    \/ \E c \in Callers :
         \/ StartSeq(c)
         \/ Goroutine(c)
         \/ LocalApply(c)
         \/ ReturnConc(c)

Fairness ==
    /\ WF_vars(\E c \in Callers : StartSeq(c))
    /\ \A c \in Callers :
         /\ WF_vars(Goroutine(c))
         /\ WF_vars(LocalApply(c))
         /\ WF_vars(ReturnConc(c))

SpecLive == Init /\ [][NextLive]_vars /\ Fairness

\* Every answer the remote Alertmanager has given to a call in flight is
\* the good one: ready, and no error.
RemoteGood ==
    \A c \in Callers :
      /\ call[c].gpc \notin {"idle", "ready"} => call[c].ready
      /\ call[c].applyErr = Nil
      /\ call[c].cfgErr = Nil
      /\ call[c].stateErr = Nil

\* The sync interval has elapsed since lastSync.
IntervalElapsed == Since(lastSync, now) >= syncInterval

\* A call has sent configuration and state, both with success, and has
\* assigned its timestamp to lastSync.
Synced ==
    \E c \in Callers :
      /\ call[c].gpc = "done"
      /\ call[c].wrote
      /\ call[c].rcalls = <<RReady, RCfg, RState>>
      /\ call[c].cfgErr = Nil
      /\ call[c].stateErr = Nil
      /\ lastSync = call[c].t

\* ------------------------------------------ the synchronous operations
\* Arguments a caller passes and results an engine returns.
Args == {"a1", "a2"}
Results == {"r1", "r2"}

\* Status, silence, alert, receiver and test operations of
\* notifier.Alertmanager.
BusinessOps ==
    {"GetStatus", "CreateSilence", "DeleteSilence", "GetSilence",
     "ListSilences", "GetAlerts", "GetAlertGroups", "PutAlerts",
     "GetReceivers", "TestReceivers", "TestTemplate"}

SaveOps == {"SaveAndApplyConfig", "SaveAndApplyDefaultConfig"}

\* Arguments, results and errors by signature.
ArgsOf(name) ==
    IF name \in {"GetStatus", "CleanUp", "StopAndWait", "Ready"}
    THEN {"none"} ELSE Args
ResultsOf(name) ==
    IF name \in {"DeleteSilence", "PutAlerts", "ApplyConfig"} \cup SaveOps
    THEN {"none"} ELSE Results
ErrorsOf(name, engine) ==
    IF name = "GetStatus" THEN {Nil}
    ELSE IF engine = "internal" THEN {Nil, LocalErr} ELSE {Nil, RemoteErr}

\* One call on an engine.
EngineCall(engine, method, arg) ==
    [engine |-> engine, method |-> method, arg |-> arg]

\* An operation delegated to one engine and returned as the engine answered.
Delegated(name, a, engine, r, e) ==
    [NoOp EXCEPT !.name = name, !.arg = a,
                 !.calls = <<EngineCall(engine, name, a)>>,
                 !.answer = r, !.aerr = e, !.res = r, !.err = e]

\* Lines 39-44: RemoteSecondaryConfig.Validate.
ValidateAccept(cfg) == Nil
Validate(cfg) == IF ~cfg.Logger THEN "logger cannot be nil" ELSE Nil

\* Lines 46-56: NewRemoteSecondaryForkedAlertmanager.
NewSecondary ==
    /\ new.kind = "none"
    /\ \E lg \in BOOLEAN, si \in SyncIntervals :
         LET cfg == [Logger |-> lg, SyncInterval |-> si]
             e == Validate(cfg)
         IN  /\ new' = [kind |-> "secondary", logger |-> lg,
                        interval |-> si, err |-> e]
             /\ IF e # Nil
                THEN UNCHANGED <<fam, syncInterval, lastSync>>
                ELSE /\ fam' = "secondary"
                     /\ syncInterval' = cfg.SyncInterval
                     /\ lastSync' = ZeroTime
    /\ UNCHANGED <<now, call, done, prev, op>>

\* Lines 113-155: the engine the business operations are delegated to.
SecondaryTargetRemoteAlerts(name) ==
    IF name \in {"GetAlerts", "GetAlertGroups", "PutAlerts"}
    THEN "remote" ELSE "internal"
SecondaryTarget(name) == "internal"

\* Lines 113-155: return fam.internal.<operation>(...).
SecondaryBusiness ==
    /\ fam = "secondary"
    /\ \E name \in BusinessOps :
         LET engine == SecondaryTarget(name)
         IN  \E a \in ArgsOf(name), r \in ResultsOf(name),
                e \in ErrorsOf(name, engine) :
                op' = Delegated(name, a, engine, r, e)
    /\ UNCHANGED <<lastSync, syncInterval, now, call, done, prev, fam, new>>

\* Lines 103-111: the engines SaveAndApply[Default]Config calls.
SecondarySaveCallsBoth(name, a) ==
    <<EngineCall("internal", name, a), EngineCall("remote", name, a)>>
SecondarySaveCalls(name, a) == <<EngineCall("internal", name, a)>>

\* Lines 103-111: SaveAndApplyConfig and SaveAndApplyDefaultConfig.
SecondarySaveAndApplyMarksSync ==
    /\ fam = "secondary"
    /\ \E name \in SaveOps, a \in Args, e \in {Nil, LocalErr} :
         op' = [NoOp EXCEPT !.name = name, !.arg = a,
                            !.calls = SecondarySaveCalls(name, a),
                            !.aerr = e, !.err = e]
    /\ lastSync' = now
    /\ UNCHANGED <<syncInterval, now, call, done, prev, fam, new>>
SecondarySaveAndApply ==
    /\ fam = "secondary"
    /\ \E name \in SaveOps, a \in Args, e \in {Nil, LocalErr} :
         op' = [NoOp EXCEPT !.name = name, !.arg = a,
                            !.calls = SecondarySaveCalls(name, a),
                            !.aerr = e, !.err = e]
    /\ UNCHANGED <<lastSync, syncInterval, now, call, done, prev, fam, new>>

\* Lines 157-160: the engines CleanUp calls.
CleanUpCallsBoth ==
    <<EngineCall("internal", "CleanUp", "none"),
      EngineCall("remote", "CleanUp", "none")>>
CleanUpCalls == <<EngineCall("internal", "CleanUp", "none")>>

\* Lines 157-160: CleanUp.
SecondaryCleanUp ==
    /\ fam = "secondary"
    /\ op' = [NoOp EXCEPT !.name = "CleanUp", !.calls = CleanUpCalls]
    /\ UNCHANGED <<lastSync, syncInterval, now, call, done, prev, fam, new>>

\* Lines 162-166: the engines StopAndWait calls, in order.
StopAndWaitCallsRemoteFirst ==
    <<EngineCall("remote", "StopAndWait", "none"),
      EngineCall("internal", "StopAndWait", "none")>>
StopAndWaitCalls ==
    <<EngineCall("internal", "StopAndWait", "none"),
      EngineCall("remote", "StopAndWait", "none")>>

\* Lines 162-166: StopAndWait.
SecondaryStopAndWaitMarksStopped ==
    /\ fam = "secondary"
    /\ op' = [NoOp EXCEPT !.name = "StopAndWait", !.calls = StopAndWaitCalls]
    /\ fam' = "stopped"
    /\ UNCHANGED <<lastSync, syncInterval, now, call, done, prev, new>>
SecondaryStopAndWait ==
    /\ fam = "secondary"
    /\ op' = [NoOp EXCEPT !.name = "StopAndWait", !.calls = StopAndWaitCalls]
    /\ UNCHANGED <<lastSync, syncInterval, now, call, done, prev, fam, new>>

\* Lines 168-171: return fam.internal.Ready().
SecondaryReadyValueBoth(li, ri) == li /\ ri
SecondaryReadyValue(li, ri) == li

\* Lines 168-171: Ready.
SecondaryReady ==
    /\ fam = "secondary"
    /\ \E li \in BOOLEAN, ri \in BOOLEAN :
         op' = [NoOp EXCEPT !.name = "Ready",
                            !.calls = <<EngineCall("internal", "Ready", "none")>>,
                            !.lready = li, !.rready = ri,
                            !.answer = li,
                            !.res = SecondaryReadyValue(li, ri)]
    /\ UNCHANGED <<lastSync, syncInterval, now, call, done, prev, fam, new>>

SecondaryOp ==
    \/ SecondaryBusiness
    \/ SecondarySaveAndApply
    \/ SecondaryCleanUp
    \/ SecondaryStopAndWait
    \/ SecondaryReady

\* ------------------------------------------------ the primary coordinator
\* NewRemotePrimaryForkedAlertmanager(internal, remote).
NewPrimary ==
    /\ new.kind = "none"
    /\ new' = [kind |-> "primary", logger |-> FALSE, interval |-> 0,
               err |-> Nil]
    /\ fam' = "primary"
    /\ UNCHANGED <<lastSync, syncInterval, now, call, done, prev, op>>

\* The engine the primary coordinator delegates an operation to.
PrimaryTargetLocalReads(name) ==
    IF name \in {"GetStatus", "GetSilence", "ListSilences"}
    THEN "internal" ELSE "remote"
PrimaryTargetSticky(name) ==
    IF op.name = "CleanUp" THEN "internal" ELSE "remote"
PrimaryTarget(name) == "remote"

\* Status, silence, alert, receiver and test operations in primary mode.
PrimaryBusiness ==
    /\ fam = "primary"
    /\ \E name \in BusinessOps :
         LET engine == PrimaryTarget(name)
         IN  \E a \in ArgsOf(name), r \in ResultsOf(name),
                e \in ErrorsOf(name, engine) :
                op' = Delegated(name, a, engine, r, e)
    /\ UNCHANGED <<lastSync, syncInterval, now, call, done, prev, fam, new>>

\* The engine calls of ApplyConfig and SaveAndApply[Default]Config in
\* primary mode.
PrimaryApplyCallsWithSync(name, a) ==
    <<EngineCall("remote", name, a),
      EngineCall("remote", RCfg, a), EngineCall("remote", RState, "none")>>
PrimaryApplyCalls(name, a) == <<EngineCall("remote", name, a)>>

\* ApplyConfig, SaveAndApplyConfig and SaveAndApplyDefaultConfig in primary
\* mode.
PrimaryApply ==
    /\ fam = "primary"
    /\ \E name \in {"ApplyConfig"} \cup SaveOps, a \in Args,
          e \in {Nil, RemoteErr} :
         op' = [NoOp EXCEPT !.name = name, !.arg = a,
                            !.calls = PrimaryApplyCalls(name, a),
                            !.aerr = e, !.err = e]
    /\ UNCHANGED <<lastSync, syncInterval, now, call, done, prev, fam, new>>

\* CleanUp in primary mode: the internal Alertmanager only.
PrimaryCleanUpCalls == <<EngineCall("internal", "CleanUp", "none")>>

PrimaryCleanUp ==
    /\ fam = "primary"
    /\ op' = [NoOp EXCEPT !.name = "CleanUp", !.calls = PrimaryCleanUpCalls]
    /\ UNCHANGED <<lastSync, syncInterval, now, call, done, prev, fam, new>>

\* StopAndWait in primary mode: both engines, the internal one first.
PrimaryStopAndWaitCalls ==
    <<EngineCall("internal", "StopAndWait", "none"),
      EngineCall("remote", "StopAndWait", "none")>>

PrimaryStopAndWait ==
    /\ fam = "primary"
    /\ op' = [NoOp EXCEPT !.name = "StopAndWait",
                          !.calls = PrimaryStopAndWaitCalls]
    /\ UNCHANGED <<lastSync, syncInterval, now, call, done, prev, fam, new>>

\* Ready in primary mode: both engines must be ready.
PrimaryReadyValueRemoteOnly(li, ri) == ri
PrimaryReadyValue(li, ri) == li /\ ri

\* Ready in primary mode.  An engine is asked unless the answer of the
\* other one, asked first, already decides the result.
PrimaryReady ==
    /\ fam = "primary"
    /\ \E li \in BOOLEAN, ri \in BOOLEAN, first \in {"internal", "remote"} :
         LET second == IF first = "internal" THEN "remote" ELSE "internal"
             firstAnswer == IF first = "internal" THEN li ELSE ri
         IN  op' = [NoOp EXCEPT
                      !.name = "Ready",
                      !.calls = IF firstAnswer
                                THEN <<EngineCall(first, "Ready", "none"),
                                       EngineCall(second, "Ready", "none")>>
                                ELSE <<EngineCall(first, "Ready", "none")>>,
                      !.lready = li, !.rready = ri,
                      !.res = PrimaryReadyValue(li, ri)]
    /\ UNCHANGED <<lastSync, syncInterval, now, call, done, prev, fam, new>>

PrimaryOp ==
    \/ PrimaryBusiness
    \/ PrimaryApply
    \/ PrimaryCleanUp
    \/ PrimaryStopAndWait
    \/ PrimaryReady

\* ------------------------------------- construction and every operation
\* Before a coordinator is constructed.
InitOps ==
    /\ lastSync = ZeroTime
    /\ syncInterval = 0
    /\ now = ClockStart
    /\ call = [c \in Callers |-> NoCall]
    /\ done = NoCall
    /\ prev = "none"
    /\ fam = "nil"
    /\ new = [kind |-> "none", logger |-> FALSE, interval |-> 0, err |-> Nil]
    /\ op = NoOp

NextOps ==
    \/ NewSecondary
    \/ NewPrimary
    \/ SecondaryOp
    \/ PrimaryOp
    \/ \E c \in Callers :
         \/ StartSeq(c)
         \/ Goroutine(c)
         \/ LocalApply(c)
         \/ ReturnConc(c)

\* A coordinator is constructed and then used through all its operations.
SpecOps == InitOps /\ [][NextOps]_vars

TypeOK ==
    /\ lastSync \in {ZeroTime} \cup (ClockStart..ClockEnd)
    /\ syncInterval \in SyncIntervals
    /\ now \in ClockStart..ClockEnd
    /\ \A c \in Callers : call[c].mpc \in {"idle", "local", "wait"}
    /\ done.mpc \in {"idle", "returned"}

\* ------------------------------------------------------------- properties
\* Number of calls of method m in the call sequence s.
Count(s, m) == Cardinality({i \in DOMAIN s : s[i] = m})

\* The returned call made both compare-and-send calls, once each.
DoneSentBoth == Count(done.rcalls, RCfg) = 1 /\ Count(done.rcalls, RState) = 1

\* The fam.log.Error entries owed to the remote errors of call r, one for
\* each error, in the order of lines 70, 82 and 87.
ErrorEntries(r) ==
    (IF r.applyErr # Nil THEN <<LogApply>> ELSE <<>>)
      \o (IF r.cfgErr # Nil THEN <<LogCfg>> ELSE <<>>)
      \o (IF r.stateErr # Nil THEN <<LogState>> ELSE <<>>)

\* The arguments ApplyConfig owes to method m of the remote Alertmanager
\* in a call made by caller c.
OwedArgs(c, m) ==
    CASE m = RReady -> <<>>
      [] m = RApply -> <<CallerCtx(c), CallerConfig(c)>>
      [] m = RCfg   -> <<CallerCtx(c), CallerConfig(c)>>
      [] m = RState -> <<CallerCtx(c)>>

\* The engine calls and the result of operation o of the primary
\* coordinator are those its name, its arguments and the engines' answers
\* determine.
PrimaryOutcome(o) ==
    CASE o.name \in BusinessOps \cup {"ApplyConfig"} \cup SaveOps ->
           /\ o.calls = <<EngineCall("remote", o.name, o.arg)>>
           /\ o.res = o.answer
           /\ o.err = o.aerr
      [] o.name = "CleanUp" ->
           /\ o.calls = <<EngineCall("internal", "CleanUp", "none")>>
           /\ o.res = "none"
           /\ o.err = Nil
      [] o.name = "StopAndWait" ->
           /\ o.calls = <<EngineCall("internal", "StopAndWait", "none"),
                          EngineCall("remote", "StopAndWait", "none")>>
           /\ o.res = "none"
           /\ o.err = Nil
      [] o.name = "Ready" ->
           /\ \A i \in DOMAIN o.calls : o.calls[i].method = "Ready"
           /\ o.res = (o.lready /\ o.rready)
           /\ o.err = Nil
      [] OTHER -> o = NoOp

\* Every call the goroutine of c has made on the remote Alertmanager
\* succeeded, and it has made those of one of its two successful paths:
\* lines 68-69, or lines 68, 80 and 85.
AllRemoteSucceeded(c) ==
    /\ call[c].applyErr = Nil
    /\ call[c].cfgErr = Nil
    /\ call[c].stateErr = Nil
    /\ call[c].rcalls = IF call[c].ready THEN <<RReady, RCfg, RState>>
                        ELSE <<RReady, RApply>>

\* The engine calls and the result of synchronous operation o of the
\* secondary coordinator, as lines 103-171 delegate it.
SecondaryOutcome(o) ==
    CASE o.name \in BusinessOps \cup SaveOps ->
           /\ o.calls = <<EngineCall("internal", o.name, o.arg)>>
           /\ o.res = o.answer
           /\ o.err = o.aerr
      [] o.name = "CleanUp" ->
           /\ o.calls = <<EngineCall("internal", "CleanUp", "none")>>
           /\ o.res = "none"
           /\ o.err = Nil
      [] o.name = "StopAndWait" ->
           /\ o.calls = <<EngineCall("internal", "StopAndWait", "none"),
                          EngineCall("remote", "StopAndWait", "none")>>
           /\ o.res = "none"
           /\ o.err = Nil
      [] o.name = "Ready" ->
           /\ o.calls = <<EngineCall("internal", "Ready", "none")>>
           /\ o.res = o.lready
           /\ o.err = Nil
      [] OTHER -> o = NoOp

\* C1: ApplyConfig returns exactly what the internal Alertmanager's
\* ApplyConfig returned, its error or nil, whatever the remote Alertmanager
\* answered; a remote error is never returned.
Thm_C1 ==
    done.valid => /\ done.ret = done.err
                  /\ done.ret # RemoteErr
                  /\ done.lcalls = 1

Wit_C1 ==
    /\ done.valid
    /\ done.err = Nil
    /\ done.ret = Nil
    /\ done.cfgErr = RemoteErr
    /\ done.stateErr = RemoteErr

\* C2: lastSync changes only in the last step of a goroutine whose remote
\* calls all succeeded (remote ApplyConfig when not ready, or both
\* compare-and-send calls when ready and due); a call in which one or both
\* compare-and-send calls failed returns with lastSync as it found it.
Thm_C2 ==
    [][ /\ lastSync' # lastSync =>
             \E c \in Callers :
                /\ call[c].gpc \in {"store73", "store92"}
                /\ call'[c].gpc = "done"
                /\ \/ /\ ~call[c].ready
                      /\ call[c].rcalls = <<RReady, RApply>>
                      /\ call[c].applyErr = Nil
                   \/ /\ call[c].ready
                      /\ call[c].due
                      /\ call[c].rcalls = <<RReady, RCfg, RState>>
                      /\ call[c].cfgErr = Nil
                      /\ call[c].stateErr = Nil
        /\ (done'.valid /\ (done'.cfgErr # Nil \/ done'.stateErr # Nil))
              => done'.sync1 = done'.sync0 ]_vars

Wit_C2 ==
    /\ done.valid
    /\ done.ready
    /\ done.wrote
    /\ done.sync0 # ZeroTime
    /\ done.sync1 # done.sync0

\* C3 as stated: after a call in which exactly one compare-and-send call
\* failed, the next call makes both compare-and-send calls.
CE_C3 ==
    (prev = "partial" /\ done.valid) => DoneSentBoth

\* C3 amended: a call in which exactly one compare-and-send call failed
\* leaves lastSync as it was, and the next call, when it finds the remote
\* Alertmanager ready, makes both compare-and-send calls, whatever the sync
\* interval.
Thm_C3 ==
    /\ RemoteOutcome(done) = "partial" => done.sync1 = done.sync0
    /\ (prev = "partial" /\ done.valid /\ done.ready) =>
          /\ done.due
          /\ done.rcalls = <<RReady, RCfg, RState>>

Wit_C3 ==
    /\ prev = "partial"
    /\ done.valid
    /\ done.ready
    /\ syncInterval > 0
    /\ done.sync0 # ZeroTime
    /\ DoneSentBoth

\* C4: after a call in which the remote Alertmanager returned an error
\* (remote ApplyConfig or a compare-and-send call), the next call tries to
\* sync the remote Alertmanager again, whatever the sync interval and
\* whatever calls were made before.
CE_C4 ==
    (prev \in {"applyFailed", "partial", "bothFailed"} /\ done.valid) =>
        \/ Count(done.rcalls, RApply) = 1
        \/ DoneSentBoth

\* C5: a call that finds the remote Alertmanager not ready calls its
\* ApplyConfig once, after Ready and without any compare-and-send call; on
\* success lastSync becomes the time read after that call, on error lastSync
\* stays as it was.
Thm_C5 ==
    (done.valid /\ ~done.ready) =>
        /\ done.rcalls = <<RReady, RApply>>
        /\ done.applyErr = Nil =>
              /\ done.wrote
              /\ done.sync1 = done.t
              /\ done.t0 <= done.sync1
              /\ done.sync1 <= done.t1
        /\ done.applyErr # Nil =>
              /\ ~done.wrote
              /\ done.sync1 = done.sync0

Wit_C5 ==
    /\ done.valid
    /\ ~done.ready
    /\ done.applyErr = RemoteErr
    /\ done.sync0 # ZeroTime
    /\ done.t1 > done.sync0

\* C6: a call that finds the remote Alertmanager ready less than one sync
\* interval after lastSync makes no remote call besides Ready, calls the
\* internal ApplyConfig once and leaves lastSync unchanged.
Thm_C6 ==
    (done.valid /\ done.ready /\ done.since < syncInterval) =>
        /\ done.rcalls = <<RReady>>
        /\ done.lcalls = 1
        /\ ~done.wrote
        /\ done.sync1 = done.sync0

Wit_C6 ==
    /\ done.valid
    /\ done.ready
    /\ done.since < syncInterval
    /\ done.rcalls = <<RReady>>

\* C7: a call that finds the remote Alertmanager ready with the interval
\* elapsed calls CompareAndSendConfiguration and then CompareAndSendState,
\* once each, also when the first returned an error.
Thm_C7 ==
    (done.valid /\ done.ready /\ done.since >= syncInterval) =>
        done.rcalls = <<RReady, RCfg, RState>>

Wit_C7 ==
    /\ done.valid
    /\ done.ready
    /\ done.cfgErr = RemoteErr
    /\ Count(done.rcalls, RState) = 1

\* C8: a call makes the two compare-and-send calls exactly when the remote
\* Alertmanager is ready and now - lastSync >= interval, equality included;
\* with a zero interval every call that finds it ready makes both.
Thm_C8 ==
    done.valid =>
        /\ DoneSentBoth <=> (done.ready /\ done.since >= syncInterval)
        /\ done.ready => /\ done.t0 - done.sync0 <= done.since
                         /\ done.since <= done.t1 - done.sync0
        /\ (syncInterval = 0 /\ done.ready) => DoneSentBoth

Wit_C8 ==
    /\ done.valid
    /\ done.ready
    /\ syncInterval > 0
    /\ done.since = syncInterval
    /\ DoneSentBoth

\* C9: a call returns only when the internal ApplyConfig has returned and
\* its goroutine has finished: no remote call and no assignment of lastSync
\* of a returned call is still to come.
Thm_C9 ==
    /\ done.valid => (done.gpc = "done" /\ done.lcalls = 1)
    /\ \A c \in Callers : call[c].mpc = "idle" => call[c].gpc = "idle"

Wit_C9 ==
    /\ done.valid
    /\ done.wrote
    /\ done.gpc = "done"
    /\ done.sync1 = done.t1

\* C10 as stated: once the internal ApplyConfig has returned, ApplyConfig
\* can return, even while a remote call of its goroutine is outstanding.
CE_C10 ==
    \A c \in Callers : call[c].mpc = "wait" => ENABLED Return(c)

\* C10 amended: once the internal ApplyConfig has returned, ApplyConfig can
\* return exactly when its goroutine has finished; while a remote call or
\* the assignment of lastSync is outstanding the caller stays blocked.
Thm_C10 ==
    \A c \in Callers :
        call[c].mpc = "wait" => (ENABLED Return(c) <=> call[c].gpc = "done")

Wit_C10 ==
    \E c \in Callers :
        /\ call[c].mpc = "wait"
        /\ call[c].gpc \in {"apply", "cfg", "state"}
        /\ ~ENABLED Return(c)

\* The goroutine of c is inside the statement fam.lastSync = time.Now().
InStore(c) == call[c].gpc \in {"store73", "store92"}

\* C11: when ApplyConfig calls overlap, lastSync is updated under exclusive
\* access: no two goroutines are inside the update of lastSync at the same
\* time, and a goroutine never overwrites lastSync with a timestamp older
\* than the one another goroutine has stored.
CE_C11 ==
    \A c \in Callers :
        InStore(c) =>
            /\ \A d \in Callers \ {c} : ~InStore(d)
            /\ call[c].t >= lastSync

\* C12: in secondary mode each status, silence, alert, receiver and test
\* operation makes one call, of the same method with the caller's arguments,
\* on the internal Alertmanager, none on the remote one, and returns the
\* internal result and error as they are.
Thm_C12 ==
    (fam = "secondary" /\ op.name \in BusinessOps) =>
        /\ op.calls = <<EngineCall("internal", op.name, op.arg)>>
        /\ op.res = op.answer
        /\ op.err = op.aerr

Wit_C12 ==
    /\ fam = "secondary"
    /\ op.name = "GetAlerts"
    /\ op.arg = "a2"
    /\ op.res = "r2"
    /\ op.err = LocalErr

Thm_C14 ==
    (fam = "secondary" /\ op.name = "Ready") =>
        /\ op.res = op.lready
        /\ op.calls = <<EngineCall("internal", "Ready", "none")>>

Wit_C14 ==
    /\ fam = "secondary"
    /\ op.name = "Ready"
    /\ op.lready
    /\ ~op.rready
    /\ op.res = TRUE

\* C15: in primary mode Ready returns true exactly when both the internal
\* and the remote Alertmanager are ready.
Thm_C15 ==
    (fam = "primary" /\ op.name = "Ready") =>
        (op.res = TRUE <=> (op.lready /\ op.rready))

Wit_C15 ==
    /\ fam = "primary"
    /\ op.name = "Ready"
    /\ ~op.lready
    /\ op.rready
    /\ op.res = FALSE

\* C16: in primary mode each status, silence, alert, receiver and test
\* operation is one call on the remote Alertmanager, none on the internal
\* one, and the remote result and error are returned as they are.
Thm_C16 ==
    (fam = "primary" /\ op.name \in BusinessOps) =>
        /\ op.calls = <<EngineCall("remote", op.name, op.arg)>>
        /\ op.res = op.answer
        /\ op.err = op.aerr

Wit_C16 ==
    /\ fam = "primary"
    /\ op.name = "ListSilences"
    /\ op.arg = "a2"
    /\ op.res = "r1"
    /\ op.err = RemoteErr

\* C17: in primary mode ApplyConfig, SaveAndApplyConfig and
\* SaveAndApplyDefaultConfig are one call on the remote Alertmanager whose
\* error is returned; no compare-and-send call, no call on the internal
\* Alertmanager and no goroutine follows.
Thm_C17 ==
    /\ (fam = "primary" /\ op.name \in {"ApplyConfig"} \cup SaveOps) =>
          /\ op.calls = <<EngineCall("remote", op.name, op.arg)>>
          /\ op.err = op.aerr
    /\ fam = "primary" =>
          /\ \A c \in Callers : call[c] = NoCall
          /\ lastSync = ZeroTime

Wit_C17 ==
    /\ fam = "primary"
    /\ op.name = "ApplyConfig"
    /\ op.err = RemoteErr

\* C18: in both modes StopAndWait calls StopAndWait once on the internal
\* Alertmanager and then once on the remote one, whatever was called before,
\* and returns nothing.
Thm_C18 ==
    op.name = "StopAndWait" =>
        /\ op.calls = <<EngineCall("internal", "StopAndWait", "none"),
                        EngineCall("remote", "StopAndWait", "none")>>
        /\ op.err = Nil
        /\ op.res = "none"

Wit_C18 ==
    /\ fam = "secondary"
    /\ op.name = "StopAndWait"
    /\ lastSync # ZeroTime
    /\ Len(op.calls) = 2

\* C19: in both modes CleanUp calls CleanUp once on the internal
\* Alertmanager and never calls the remote one.
Thm_C19 ==
    op.name = "CleanUp" =>
        /\ op.calls = <<EngineCall("internal", "CleanUp", "none")>>
        /\ \A i \in DOMAIN op.calls : op.calls[i].engine # "remote"

Wit_C19 ==
    /\ fam = "secondary"
    /\ op.name = "CleanUp"
    /\ Len(op.calls) = 1
    /\ \E c \in Callers : call[c].gpc = "state"

\* C20: NewRemoteSecondaryForkedAlertmanager with a nil logger returns an
\* error and no coordinator, so that no engine is ever called; with a
\* logger it returns a coordinator for every sync interval; the constructor
\* calls neither engine.
Thm_C20 ==
    [][ /\ (new.kind = "none" /\ new'.kind = "secondary") =>
              /\ op' = op
              /\ call' = call
              /\ new'.logger =>
                    /\ fam' = "secondary"
                    /\ new'.err = Nil
                    /\ syncInterval' = new'.interval
                    /\ lastSync' = ZeroTime
              /\ ~new'.logger =>
                    /\ fam' = "nil"
                    /\ new'.err # Nil
        /\ fam' = "nil" =>
              /\ op' = NoOp
              /\ \A c \in Callers : call'[c] = NoCall ]_vars

Wit_C20 ==
    /\ new.kind = "secondary"
    /\ ~new.logger
    /\ new.err # Nil
    /\ fam = "nil"

\* C21: with a non-zero sync interval, a first call on a new coordinator
\* that finds the remote Alertmanager not ready and whose remote
\* ApplyConfig succeeds sets lastSync to the time of that call; a call made
\* right after it (no time elapsed) that finds the remote Alertmanager ready
\* makes no compare-and-send and no remote ApplyConfig call and returns the
\* internal ApplyConfig result.
Thm_C21 ==
    /\ (done.valid /\ syncInterval > 0 /\ done.sync0 = ZeroTime
          /\ ~done.ready /\ done.applyErr = Nil) =>
          /\ done.sync1 = done.t
          /\ done.t0 <= done.sync1
          /\ done.sync1 <= done.t1
    /\ (prev = "bootstrapped" /\ done.valid /\ syncInterval > 0
          /\ done.ready /\ done.t1 = done.sync0) =>
          /\ done.rcalls = <<RReady>>
          /\ done.lcalls = 1
          /\ done.ret = done.err

Wit_C21 ==
    /\ prev = "bootstrapped"
    /\ done.valid
    /\ syncInterval = MaxInterval
    /\ done.ready
    /\ done.t1 = done.sync0
    /\ done.rcalls = <<RReady>>
    /\ done.ret = LocalErr

\* C22: when ApplyConfig is called again and again and, from some point on,
\* the remote Alertmanager is ready and its calls succeed, then whenever the
\* sync interval has elapsed since lastSync a call follows in which both
\* compare-and-send calls succeed and lastSync is set to that call's time.
Thm_C22 == []((IntervalElapsed /\ []RemoteGood) => <>Synced)

\* a second sync, made after the interval elapsed since an earlier one
Wit_C22 ==
    /\ Synced
    /\ syncInterval > 0
    /\ \E c \in Callers :
         /\ call[c].wrote
         /\ call[c].sync0 # ZeroTime
         /\ call[c].since >= syncInterval
         /\ lastSync > call[c].sync0

\* C23: every ApplyConfig call of the secondary coordinator starts exactly
\* one goroutine, at the moment the call is made and never again during the
\* call; no other operation of either coordinator, and no constructor,
\* starts a goroutine or touches one: it runs in the caller's thread.
Thm_C23 ==
    [][/\ \A c \in Callers :
            /\ (call[c].mpc = "idle" /\ call'[c].mpc # "idle") =>
                  (fam = "secondary" /\ call'[c].gpc = "ready")
            /\ (call[c].gpc = "idle" /\ call'[c].gpc # "idle") =>
                  (call[c].mpc = "idle" /\ call'[c].mpc = "local")
            /\ call[c].gpc \notin {"idle", "ready"} => call'[c].gpc # "ready"
       /\ (op' # op \/ new' # new \/ fam' # fam) => call' = call
       /\ fam = "primary" => call' = call
      ]_vars

Wit_C23 ==
    /\ fam = "secondary"
    /\ op.name \in BusinessOps
    /\ \E c \in Callers :
         /\ call[c].mpc = "wait"
         /\ call[c].gpc = "cfg"
    /\ \E c \in Callers : call[c].mpc = "idle" /\ call[c].gpc = "idle"

\* C24: every remote error an ApplyConfig call suppresses has its own
\* error log entry: one for a failed remote ApplyConfig, one for a failed
\* CompareAndSendConfiguration, one for a failed CompareAndSendState, hence
\* two entries when both compare-and-send calls fail; nothing else is
\* logged as an error.
Thm_C24 ==
    /\ done.valid => done.log = ErrorEntries(done)
    /\ (done.valid /\ done.cfgErr # Nil /\ done.stateErr # Nil) =>
          done.log = <<LogCfg, LogState>>
    /\ \A c \in Callers : call[c].log = ErrorEntries(call[c])

Wit_C24 ==
    /\ done.valid
    /\ done.cfgErr # Nil
    /\ done.stateErr # Nil
    /\ Len(done.log) = 2
    /\ done.ret = Nil

\* C25: ApplyConfig hands the caller's ctx and config, unchanged, to every
\* call it delegates: internal ApplyConfig, remote ApplyConfig and
\* CompareAndSendConfiguration receive that ctx and that config,
\* CompareAndSendState receives that ctx.
Thm_C25 ==
    \A c \in Callers :
      /\ Len(call[c].rargs) = Len(call[c].rcalls)
      /\ \A i \in DOMAIN call[c].rcalls :
           call[c].rargs[i] = OwedArgs(c, call[c].rcalls[i])
      /\ call[c].lcalls > 0 =>
           call[c].largs = <<CallerCtx(c), CallerConfig(c)>>

Wit_C25 ==
    /\ done.valid
    /\ \E c \in Callers :
         /\ call[c].mpc = "wait"
         /\ call[c].gpc = "done"
         /\ call[c].rcalls = <<RReady, RCfg, RState>>
         /\ call[c].rargs[3] # call[c].rargs[2]
         /\ call[c].largs = call[c].rargs[2]

\* C26: the primary coordinator keeps no state of its own: no operation
\* changes anything in the coordinator, and the engine an operation calls
\* and the result it returns are determined by its name, its arguments and
\* the engines' answers, whatever operation was called before it.
Thm_C26 ==
    [][fam = "primary" =>
         /\ lastSync' = lastSync
         /\ syncInterval' = syncInterval
         /\ call' = call
         /\ fam' = fam
         /\ new' = new
         /\ PrimaryOutcome(op')
      ]_vars

Wit_C26 ==
    /\ fam = "primary"
    /\ op.name = "CreateSilence"
    /\ op.calls = <<EngineCall("remote", "CreateSilence", "a1")>>
    /\ op.res = "r2"
    /\ op.err = Nil
    /\ lastSync = ZeroTime

\* C27: in secondary mode lastSync changes only in a step of an
\* ApplyConfig call, the assignment made by its goroutine; every other
\* operation leaves lastSync unchanged, and no operation changes the sync
\* interval the constructor has set.
Thm_C27 ==
    [][fam = "secondary" =>
         /\ syncInterval' = syncInterval
         /\ syncInterval = new.interval
         /\ op' # op => lastSync' = lastSync
         /\ lastSync' # lastSync =>
              \E c \in Callers :
                /\ InStore(c)
                /\ call'[c].gpc = "done"
                /\ call'[c].wrote
      ]_vars

Wit_C27 ==
    /\ fam = "secondary"
    /\ syncInterval = MaxInterval
    /\ lastSync # ZeroTime
    /\ op.name \in SaveOps
    /\ NoCallInFlight

CE_C29 == [][lastSync' >= lastSync]_vars

\* C30: however overlapping ApplyConfig calls interleave, lastSync is
\* changed only by a goroutine all of whose remote calls succeeded, to the
\* timestamp that goroutine took; a call whose remote ApplyConfig or one of
\* whose compare-and-send calls failed never assigns lastSync, also while
\* another call succeeds.
Thm_C30 ==
    [][/\ lastSync' # lastSync =>
            \E c \in Callers :
              /\ InStore(c)
              /\ AllRemoteSucceeded(c)
              /\ lastSync' = call[c].t
              /\ call'[c].wrote
       /\ \A c \in Callers :
            /\ call'[c].wrote => AllRemoteSucceeded(c)
            /\ (call[c].applyErr # Nil \/ call[c].cfgErr # Nil
                  \/ call[c].stateErr # Nil) =>
                 /\ ~call[c].wrote
                 /\ ~InStore(c)
                 /\ call[c].gpc \notin {"now73", "now92"}
      ]_vars

\* two overlapping calls: one failed and wrote nothing, the other one
\* succeeded and lastSync holds its timestamp
Wit_C30 ==
    /\ call["c1"].mpc = "wait"
    /\ call["c1"].gpc = "done"
    /\ call["c1"].cfgErr = Nil
    /\ call["c1"].stateErr # Nil
    /\ ~call["c1"].wrote
    /\ call["c2"].mpc = "wait"
    /\ call["c2"].gpc = "done"
    /\ call["c2"].wrote
    /\ call["c2"].rcalls = <<RReady, RCfg, RState>>
    /\ lastSync = call["c2"].t
    /\ lastSync # ZeroTime

\* C31: the internal ApplyConfig is called exactly once in every
\* ApplyConfig call, whichever remote path the goroutine takes and wherever
\* the goroutine stands when the internal call is made; no step of the
\* goroutine, before or after the internal call, touches the internal
\* result, and the value returned is that result.
Thm_C31 ==
    [][\A c \in Callers :
         /\ call[c].lcalls = (IF call[c].mpc = "wait" THEN 1 ELSE 0)
         /\ (call[c].mpc = "local" /\ call'[c].mpc # "local") =>
              /\ call'[c].mpc = "wait"
              /\ call'[c].lcalls = 1
              /\ call'[c].gpc = call[c].gpc
              /\ call'[c].rcalls = call[c].rcalls
         /\ (call[c].gpc # call'[c].gpc /\ call[c].mpc = call'[c].mpc) =>
              /\ call'[c].err = call[c].err
              /\ call'[c].lcalls = call[c].lcalls
         /\ (call[c].mpc = "wait" /\ call'[c].mpc = "idle") =>
              /\ done'.lcalls = 1
              /\ done'.ret = call[c].err
              /\ RemoteOutcome(done') \in
                   {"applyFailed", "bootstrapped", "skipped", "bothFailed",
                    "partial", "synced"}
      ]_vars

\* the internal call has returned its error while the goroutine, past
\* Ready, has its compare-and-send calls still to make
Wit_C31 ==
    /\ done.valid
    /\ done.ret = Nil
    /\ \E c \in Callers :
         /\ call[c].mpc = "wait"
         /\ call[c].err = LocalErr
         /\ call[c].gpc = "cfg"
         /\ call[c].rcalls = <<RReady>>

\* C32: a call asks the remote Alertmanager whether it is ready exactly
\* once, first of all, and keeps to that answer: not ready, its only other
\* remote call is ApplyConfig; ready, its only other remote calls are the
\* compare-and-send calls; no call makes both, whatever the remote
\* Alertmanager answers to another call meanwhile.
Thm_C32 ==
    \A c \in Callers :
      /\ Count(call[c].rcalls, RReady) =
           (IF call[c].gpc \in {"idle", "ready"} THEN 0 ELSE 1)
      /\ call[c].rcalls # <<>> => call[c].rcalls[1] = RReady
      /\ Count(call[c].rcalls, RApply) > 0 =>
           /\ ~call[c].ready
           /\ Count(call[c].rcalls, RCfg) = 0
           /\ Count(call[c].rcalls, RState) = 0
      /\ (Count(call[c].rcalls, RCfg) > 0 \/ Count(call[c].rcalls, RState) > 0) =>
           /\ call[c].ready
           /\ Count(call[c].rcalls, RApply) = 0
      /\ call[c].gpc \in {"apply", "now73", "store73"} => ~call[c].ready
      /\ call[c].gpc \in {"since", "cfg", "state", "check", "now92", "store92"}
           => call[c].ready

\* two overlapping calls that got different answers, each on its own path
Wit_C32 ==
    /\ call["c1"].ready
    /\ call["c1"].gpc = "check"
    /\ call["c1"].rcalls = <<RReady, RCfg, RState>>
    /\ ~call["c2"].ready
    /\ call["c2"].gpc = "now73"
    /\ call["c2"].rcalls = <<RReady, RApply>>

\* C33: in a due sync the goroutine calls CompareAndSendConfiguration
\* first and calls CompareAndSendState only when the former has returned,
\* one call at a time; it takes the timestamp for lastSync and assigns it
\* only when both have returned.
Thm_C33 ==
    \A c \in Callers :
      /\ call[c].gpc = "cfg" =>
           /\ call[c].rcalls = <<RReady>>
           /\ call[c].stateErr = Nil
      /\ call[c].gpc = "state" => call[c].rcalls = <<RReady, RCfg>>
      /\ call[c].gpc \in {"check", "now92", "store92"} =>
           call[c].rcalls = <<RReady, RCfg, RState>>
      /\ (call[c].ready /\ call[c].wrote) =>
           call[c].rcalls = <<RReady, RCfg, RState>>
      /\ \A i, j \in DOMAIN call[c].rcalls :
           (call[c].rcalls[i] = RCfg /\ call[c].rcalls[j] = RState) => i < j
      /\ Count(call[c].rcalls, RCfg) <= 1
      /\ Count(call[c].rcalls, RState) <= 1

\* one goroutine between its two compare-and-send calls while another has
\* made both and assigned lastSync
Wit_C33 ==
    /\ call["c1"].gpc = "state"
    /\ call["c1"].cfgErr = RemoteErr
    /\ call["c2"].ready
    /\ call["c2"].wrote
    /\ call["c2"].rcalls = <<RReady, RCfg, RState>>
    /\ lastSync = call["c2"].t

\* C34: a successful remote ApplyConfig of a call that found the remote
\* Alertmanager not ready counts as a sync: it sets lastSync, and no call
\* made after that call has returned finds the sync due, and so makes its
\* compare-and-send calls, before the sync interval has elapsed since the
\* timestamp of that bootstrap.
CE_C34 ==
    [][\A c \in Callers :
         (/\ done.valid
          /\ call[c].t0 > done.t1
          /\ call[c].gpc = "since"
          /\ call'[c].gpc = "cfg") =>
            Since(done.t, now) >= syncInterval
      ]_vars

\* C35: the secondary coordinator keeps no record of StopAndWait:
\* StopAndWait changes nothing in the coordinator, and after it every
\* operation can still be called and is delegated as before: ApplyConfig
\* starts its goroutine and calls the internal Alertmanager, the other
\* operations make the engine calls they always make.
Thm_C35 ==
    [][fam = "secondary" =>
         /\ (op' # op /\ op'.name = "StopAndWait") =>
              /\ lastSync' = lastSync
              /\ syncInterval' = syncInterval
              /\ call' = call
              /\ fam' = fam
              /\ new' = new
         /\ op.name = "StopAndWait" =>
              /\ ENABLED SecondaryOp
              /\ \A c \in Callers :
                   /\ (NoCallInFlight => ENABLED StartSeq(c))
                   /\ (call[c].mpc = "local" => ENABLED LocalApply(c))
                   /\ (call[c].gpc \notin {"idle", "done"}
                         => ENABLED Goroutine(c))
              /\ op' # op => SecondaryOutcome(op')
      ]_vars

\* StopAndWait was called during an ApplyConfig call, whose goroutine has
\* gone on to its compare-and-send calls
Wit_C35 ==
    /\ fam = "secondary"
    /\ op.name = "StopAndWait"
    /\ \E c \in Callers :
         /\ call[c].mpc = "wait"
         /\ call[c].gpc = "state"

====
